---- MODULE Spec2Model ----
(***************************************************************************)
(* Model of the mortgage pipeline's data layer (src/app.py): the customers *)
(* table in SQLite, the repository functions over it, the validator, the   *)
(* top metrics and the Streamlit script that calls them.                   *)
(*                                                                         *)
(* Text is a sequence of one-character strings, so that strip, upper, the  *)
(* regular expressions and SQL LIKE are computed character by character.   *)
(* An occupancy label is kept whole, as a text of one element.  Amounts    *)
(* are integers (whole currency units) and ratios of amounts are kept      *)
(* exact.  created_at is the clock's second count: datetime('now') has     *)
(* one-second resolution and the text it yields sorts as the time does;    *)
(* the clock never runs backwards.  Ids stay within SQLite's 64-bit range. *)
(***************************************************************************)
EXTENDS Integers, Sequences, FiniteSets, TLC

VARIABLES
    customers,   \* the rows of table customers (a set of records, keyed by id)
    sqlite_seq,  \* sqlite_sequence.seq for customers (AUTOINCREMENT's memory)
    locked,      \* TRUE while a connection holds an open write transaction
    now,         \* the storage engine's clock, in seconds
    created,     \* history: the ids assigned so far, in creation order
    last         \* what the last operation was given and what it produced

vars == <<customers, sqlite_seq, locked, now, created, last>>

----------------------------------------------------------------------------
(* Bounds of the model *)

MaxId == 3
MaxClock == 1
MaxAmount == 2
MaxRows == 3

----------------------------------------------------------------------------
(* Text *)

LowerSeq == <<"a","b","c","d","e","f","g","h","i","j","k","l","m",
              "n","o","p","q","r","s","t","u","v","w","x","y","z">>
UpperSeq == <<"A","B","C","D","E","F","G","H","I","J","K","L","M",
              "N","O","P","Q","R","S","T","U","V","W","X","Y","Z">>

Range(f) == {f[i] : i \in DOMAIN f}

Lower == Range(LowerSeq)
Uppercase == Range(UpperSeq)
Letters == Lower \cup Uppercase
Digits == {"0","1","2","3","4","5","6","7","8","9"}
Whitespace == {" ", "\t", "\n", "\r"}

\* Python's None, as a value no text equals (no character is "None")
None == <<"None">>

\* str.upper / SQLite's ASCII case folding, on one character
UpperChar(c) ==
    IF c \in Lower
    THEN UpperSeq[CHOOSE i \in DOMAIN LowerSeq : LowerSeq[i] = c]
    ELSE c

\* str.upper
upper(s) == [i \in 1..Len(s) |-> UpperChar(s[i])]

RECURSIVE lstrip(_)
lstrip(s) == IF s # <<>> /\ Head(s) \in Whitespace THEN lstrip(Tail(s)) ELSE s

RECURSIVE rstrip(_)
rstrip(s) ==
    IF s # <<>> /\ s[Len(s)] \in Whitespace
    THEN rstrip(SubSeq(s, 1, Len(s) - 1))
    ELSE s

\* str.strip
strip(s) == rstrip(lstrip(s))

\* the regular expression assertion $ (no MULTILINE) at position p of s:
\* the end of the text, or just before a newline that ends the text
ReDollar(s, p) == p = Len(s) + 1 \/ (p = Len(s) /\ s[p] = "\n")

\* STATE_RE.match(s):  ^[A-Za-z]{2}$
STATE_RE(s) ==
    /\ Len(s) >= 2
    /\ s[1] \in Letters
    /\ s[2] \in Letters
    /\ ReDollar(s, 3)

\* ZIP_RE.match(s):  ^\d{5}(-\d{4})?$
ZIP_RE(s) ==
    /\ Len(s) >= 5
    /\ \A i \in 1..5 : s[i] \in Digits
    /\ \/ ReDollar(s, 6)
       \/ /\ Len(s) >= 10
          /\ s[6] = "-"
          /\ \A i \in 7..10 : s[i] \in Digits
          /\ ReDollar(s, 11)

\* SQLite's  s LIKE pat : % is any run of characters, _ any one character,
\* letters compare without regard to (ASCII) case; there is no ESCAPE
RECURSIVE Like(_, _)
Like(s, pat) ==
    IF pat = <<>> THEN s = <<>>
    ELSE IF Head(pat) = "%"
         THEN Like(s, Tail(pat)) \/ (s # <<>> /\ Like(Tail(s), pat))
    ELSE /\ s # <<>>
         /\ (Head(pat) = "_" \/ UpperChar(Head(pat)) = UpperChar(Head(s)))
         /\ Like(Tail(s), Tail(pat))

----------------------------------------------------------------------------
(* Validation *)

MsgState == "State must be a 2-letter code (e.g., AZ, CA)."
MsgZip == "Zip Code must be 5 digits or ZIP+4 (e.g., 85212 or 85212-1234)."
MsgLoan == "Loan amount must be greater than 0."
MsgValue == "Estimated value must be greater than 0."
NoMsg == "None"

\* faulty variant: the zip_code rule is left out
validate_inputsNoZipMut(d) ==
    IF ~STATE_RE(d.state) THEN MsgState
    ELSE IF d.loan_amount <= 0 THEN MsgLoan
    ELSE IF d.estimated_value <= 0 THEN MsgValue
    ELSE NoMsg

validate_inputs(d) ==
    IF ~STATE_RE(d.state) THEN MsgState
    ELSE IF ~ZIP_RE(d.zip_code) THEN MsgZip
    ELSE IF d.loan_amount <= 0 THEN MsgLoan
    ELSE IF d.estimated_value <= 0 THEN MsgValue
    ELSE NoMsg

----------------------------------------------------------------------------
(* Storage: the customers table *)

\* the text columns of the table, all NOT NULL
TextCols == {"last_name", "first_name", "street", "city", "state",
             "zip_code", "occupancy_type"}

\* the columns insert_customer binds from rec
InsertCols == TextCols \cup {"loan_amount", "estimated_value"}

\* the database file as the functions below see it
Db == [customers |-> customers, sqlite_seq |-> sqlite_seq, locked |-> locked]

Ids(rows) == {r.id : r \in rows}

Max(S) == CHOOSE m \in S : \A x \in S : x <= m

\* faulty variant: a plain rowid, one more than the largest id now stored
NextIdRowidMut(db) == Max(Ids(db.customers) \cup {0}) + 1

\* INTEGER PRIMARY KEY AUTOINCREMENT: one more than the largest id the table
\* has ever held, which sqlite_sequence remembers across deletions
NextId(db) == Max(Ids(db.customers) \cup {db.sqlite_seq}) + 1

\* get_conn and the statement's implicit BEGIN: the write transaction opens,
\* unless another connection still holds one
Begin(db) ==
    IF db.locked
    THEN [ok |-> FALSE, err |-> "OperationalError", db |-> db]
    ELSE [ok |-> TRUE, err |-> "", db |-> [db EXCEPT !.locked = TRUE]]

\* the INSERT statement of insert_customer on an open transaction
ExecInsert(db, rec, t) ==
    IF \E k \in InsertCols : k \notin DOMAIN rec
    THEN [ok |-> FALSE, err |-> "ProgrammingError", db |-> db, id |-> 0]
    ELSE IF \E k \in TextCols : rec[k] = None
    THEN [ok |-> FALSE, err |-> "IntegrityError", db |-> db, id |-> 0]
    ELSE LET id == NextId(db)
             row == [id |-> id,
                     last_name |-> rec.last_name,
                     first_name |-> rec.first_name,
                     street |-> rec.street,
                     city |-> rec.city,
                     state |-> rec.state,
                     zip_code |-> rec.zip_code,
                     loan_amount |-> rec.loan_amount,
                     estimated_value |-> rec.estimated_value,
                     occupancy_type |-> rec.occupancy_type,
                     created_at |-> t]
         IN  [ok |-> TRUE, err |-> "",
              db |-> [db EXCEPT !.customers = @ \cup {row}, !.sqlite_seq = id],
              id |-> id]

\* a Python argument of delete_customer: an int, or a value of a type that
\* sqlite3 cannot bind (a list)
PyInt(v) == [type |-> "int", v |-> v]
PyList == [type |-> "list"]

\* faulty variant: WHERE id <= ?
ExecDeleteUpToMut(db, row_id) ==
    IF row_id.type # "int"
    THEN [ok |-> FALSE, err |-> "ProgrammingError", db |-> db]
    ELSE [ok |-> TRUE, err |-> "",
          db |-> [db EXCEPT !.customers = {r \in @ : r.id > row_id.v}]]

\* the DELETE statement of delete_customer on an open transaction
ExecDelete(db, row_id) ==
    IF row_id.type # "int"
    THEN [ok |-> FALSE, err |-> "ProgrammingError", db |-> db]
    ELSE [ok |-> TRUE, err |-> "",
          db |-> [db EXCEPT !.customers = {r \in @ : r.id # row_id.v}]]

\* faulty variant: a raise leaves the transaction open
ConnExitKeepOpenMut(before, res) ==
    IF res.ok THEN [res.db EXCEPT !.locked = FALSE] ELSE res.db

\* leaving  with closing(get_conn()) as conn, conn : the connection commits
\* when the body returned and rolls back when it raised, and closing closes
\* it either way
ConnExit(before, res) ==
    IF res.ok
    THEN [res.db EXCEPT !.locked = FALSE]
    ELSE [before EXCEPT !.locked = FALSE]

\* insert_customer(rec), called when the clock reads t
insert_customer(db, rec, t) ==
    LET b == Begin(db)
        r == IF b.ok THEN ExecInsert(b.db, rec, t)
             ELSE [ok |-> FALSE, err |-> b.err, db |-> db, id |-> 0]
    IN  [ok |-> r.ok, err |-> r.err, id |-> r.id,
         db |-> IF b.ok THEN ConnExit(db, r) ELSE db]

\* delete_customer(row_id)
delete_customer(db, row_id) ==
    LET b == Begin(db)
        r == IF b.ok THEN ExecDelete(b.db, row_id)
             ELSE [ok |-> FALSE, err |-> b.err, db |-> db]
    IN  [ok |-> r.ok, err |-> r.err,
         db |-> IF b.ok THEN ConnExit(db, r) ELSE db]

----------------------------------------------------------------------------
(* Queries *)

\* faulty variant: ORDER BY created_at DESC, id ASC
OrderAscMut(r, q) ==
    \/ r.created_at > q.created_at
    \/ (r.created_at = q.created_at /\ r.id < q.id)

\* ORDER BY created_at DESC, id DESC
OrderBefore(r, q) ==
    \/ r.created_at > q.created_at
    \/ (r.created_at = q.created_at /\ r.id > q.id)

RECURSIVE OrderBy(_)
OrderBy(rows) ==
    IF rows = {} THEN <<>>
    ELSE LET first == CHOOSE r \in rows :
                          \A q \in rows \ {r} : OrderBefore(r, q)
         IN  <<first>> \o OrderBy(rows \ {first})

\* dict.get(key) being truthy: the key is there and its text is not empty
Truthy(filters, key) == key \in DOMAIN filters /\ filters[key] # <<>>

\* the WHERE clause fetch_customers builds from filters
Where(filters, r) ==
    /\ Truthy(filters, "name") =>
           LET like == <<"%">> \o filters["name"] \o <<"%">>
           IN  Like(r.last_name, like) \/ Like(r.first_name, like)
    /\ Truthy(filters, "city") =>
           Like(r.city, <<"%">> \o filters["city"] \o <<"%">>)
    /\ Truthy(filters, "state") =>
           r.state = strip(upper(filters["state"]))

NoFilters == [k \in {} |-> <<>>]

\* fetch_customers(filters): the rows as the data frame lists them
fetch_customers(db, filters) ==
    OrderBy({r \in db.customers : Where(filters, r)})

----------------------------------------------------------------------------
(* The repository, operation by operation *)

\* records a caller may hand to insert_customer: two complete ones, one whose
\* last_name is None and one that lacks the occupancy_type key
JaneDoe ==
    [last_name |-> <<"D","o","e">>, first_name |-> <<"J","a","n","e">>,
     street |-> <<"1"," ","A">>, city |-> <<"M","e","s","a">>,
     state |-> <<"A","Z">>, zip_code |-> <<"8","5","2","1","2">>,
     loan_amount |-> 1, estimated_value |-> 2,
     occupancy_type |-> <<"Primary Residence">>]

DanLi ==
    [last_name |-> <<"L","i">>, first_name |-> <<"D","a","n">>,
     street |-> <<"2"," ","B">>, city |-> <<"Y","u","m","a">>,
     state |-> <<"C","A">>, zip_code |-> <<"9","0","0","0","1">>,
     loan_amount |-> 2, estimated_value |-> 1,
     occupancy_type |-> <<"Investment">>]

NullName == [JaneDoe EXCEPT !.last_name = None]

NoOccupancy == [k \in InsertCols \ {"occupancy_type"} |-> JaneDoe[k]]

RecInputs == {JaneDoe, DanLi, NullName, NoOccupancy}

RowIdInputs == {PyInt(i) : i \in (-1)..(MaxId + 1)} \cup {PyList}

InitDb ==
    /\ customers = {}
    /\ sqlite_seq = 0
    /\ locked = FALSE
    /\ now = 0
    /\ created = <<>>

Init ==
    /\ InitDb
    /\ last = [op |-> "init_db"]

\* a second passes
Tick ==
    /\ now < MaxClock
    /\ now' = now + 1
    /\ UNCHANGED <<customers, sqlite_seq, locked, created, last>>

Install(db) ==
    /\ customers' = db.customers
    /\ sqlite_seq' = db.sqlite_seq
    /\ locked' = db.locked

InsertCustomer(rec) ==
    /\ sqlite_seq < MaxId
    /\ LET r == insert_customer(Db, rec, now)
       IN  /\ Install(r.db)
           /\ created' = IF r.ok THEN Append(created, r.id) ELSE created
           /\ last' = [op |-> "insert", ok |-> r.ok, err |-> r.err, id |-> r.id]
    /\ UNCHANGED now

DeleteCustomer(row_id) ==
    /\ LET r == delete_customer(Db, row_id)
       IN  /\ Install(r.db)
           /\ last' = [op |-> "delete", ok |-> r.ok, err |-> r.err,
                       row_id |-> row_id]
    /\ UNCHANGED <<now, created>>

\* the filters dict holding the keys whose value is given (not None)
MkFilters(name, city, state) ==
    LET v == [name |-> name, city |-> city, state |-> state]
    IN  [k \in {k \in {"name", "city", "state"} : v[k] # None} |-> v[k]]

FilterInputs ==
    {MkFilters(n, c, s) :
        n \in {None, <<>>, <<"d","O","e">>, <<"_">>},
        c \in {None, <<"m","E">>},
        s \in {None, <<" ","a","z"," ">>}}

FetchCustomers(filters) ==
    /\ last' = [op |-> "fetch", filters |-> filters,
                df |-> fetch_customers(Db, filters)]
    /\ UNCHANGED <<customers, sqlite_seq, locked, now, created>>

Next ==
    \/ Tick
    \/ \E rec \in RecInputs : InsertCustomer(rec)
    \/ \E row_id \in RowIdInputs : DeleteCustomer(row_id)
    \/ \E filters \in FilterInputs : FetchCustomers(filters)

Spec == Init /\ [][Next]_vars

----------------------------------------------------------------------------
(* Claims about the repository *)

\* where id stands in the creation history (0 when it was never assigned)
CreatedPos(id) ==
    IF \E i \in DOMAIN created : created[i] = id
    THEN CHOOSE i \in DOMAIN created : created[i] = id
    ELSE 0

\* C1: an unfiltered fetch_customers lists every stored record exactly once,
\* each with an id and a created_at, and every record stands before all the
\* records created before it; so a record just inserted is listed first.
C1_NewestFirst ==
    (last.op = "fetch" /\ last.filters = NoFilters) =>
        /\ Len(last.df) = Cardinality(customers)
        /\ \A r \in customers :
               Cardinality({i \in DOMAIN last.df : last.df[i] = r}) = 1
        /\ \A i \in DOMAIN last.df :
               /\ last.df[i].id > 0
               /\ last.df[i].created_at \in 0..now
        /\ \A i, j \in DOMAIN last.df :
               CreatedPos(last.df[i].id) > CreatedPos(last.df[j].id) => i < j
        /\ (created # <<>> /\ created[Len(created)] \in Ids(customers)) =>
               last.df[1].id = created[Len(created)]

\* two records made in the same second are listed, the later one first
C1_Witness ==
    /\ last.op = "fetch"
    /\ last.filters = NoFilters
    /\ Len(last.df) >= 2
    /\ last.df[1].created_at = last.df[2].created_at
    /\ last.df[1].id = created[Len(created)]
    /\ Len(created) > Cardinality(customers)

\* C3: delete_customer(id) with an integer id does not raise, removes the row
\* with that id and nothing else, and changes nothing when no row has that id.
C3_DeleteFrame ==
    [][(last'.op = "delete" /\ last'.row_id.type = "int") =>
          /\ last'.ok
          /\ customers' = {r \in customers : r.id # last'.row_id.v}
          /\ Cardinality(customers \ customers') <= 1
          /\ (last'.row_id.v \notin Ids(customers) => customers' = customers)
          /\ sqlite_seq' = sqlite_seq]_vars

\* a row was deleted while another one stayed
C3_Witness ==
    /\ last.op = "delete"
    /\ last.ok
    /\ last.row_id.type = "int"
    /\ last.row_id.v \in Range(created)
    /\ last.row_id.v \notin Ids(customers)
    /\ customers # {}

\* C4: stored ids are unique, and no id is assigned twice, whatever was
\* deleted in between.
C4_IdsNeverReused ==
    /\ Cardinality(Ids(customers)) = Cardinality(customers)
    /\ \A i, j \in DOMAIN created : created[i] = created[j] => i = j
    /\ Ids(customers) \subseteq Range(created)

\* a record was created after the record with the largest id was deleted
C4_Witness ==
    /\ last.op = "insert"
    /\ last.ok
    /\ Len(created) >= 2
    /\ created[Len(created) - 1] \notin Ids(customers)

\* C8: an insert_customer or delete_customer that fails leaves the stored
\* records and the id sequence as they were and holds no transaction open,
\* so the next operation runs.
C8_FailureChangesNothing ==
    [][(last'.op \in {"insert", "delete"} /\ ~last'.ok) =>
          /\ customers' = customers
          /\ sqlite_seq' = sqlite_seq
          /\ ~locked']_vars

\* an insert failed on its NOT NULL constraint while the table held a record
C8_Witness ==
    /\ last.op = "insert"
    /\ ~last.ok
    /\ last.err = "IntegrityError"
    /\ customers # {}
    /\ ~locked

\* s holds sub as a run of consecutive characters, letter case aside
Contains(s, sub) ==
    \E i \in 0..(Len(s) - Len(sub)) :
        \A k \in 1..Len(sub) : UpperChar(s[i + k]) = UpperChar(sub[k])

\* what the filters ask of a record, as the specification words it
Satisfies(filters, r) ==
    /\ Truthy(filters, "name") =>
           Contains(r.last_name, filters["name"])
               \/ Contains(r.first_name, filters["name"])
    /\ Truthy(filters, "city") => Contains(r.city, filters["city"])
    /\ Truthy(filters, "state") => r.state = strip(upper(filters["state"]))

\* C7: fetch_customers(filters) returns exactly the stored records that
\* satisfy every filter present: name and city as substrings whatever the
\* letter case, state as equality with the trimmed upper-cased value.
C7_FiltersExact ==
    last.op = "fetch" =>
        Range(last.df) = {r \in customers : Satisfies(last.filters, r)}

----------------------------------------------------------------------------
(* The validator on its own *)

StateInputs ==
    {<<>>, <<"A">>, <<"A","Z">>, <<"a","z">>, <<"A","1">>, <<"A","Z","X">>,
     <<" ","A","Z">>, <<"A","Z","\n">>}

ZipInputs ==
    {<<>>, <<"8","5","2","1">>, <<"8","5","2","1","2">>,
     <<"8","5","2","1","2","-","1","2","3","4">>,
     <<"8","5","2","1","2","1","2","3","4">>,
     <<"8","5","2","1","2","-","1","2","3">>,
     <<"8","5","2","1","2","-","1","2","3","4","5">>,
     <<"8","5","2","1","x">>, <<"8","5","2","1","2","\n">>}

AmountInputs == (-1)..MaxAmount

InitValidate ==
    /\ InitDb
    /\ \E st \in StateInputs, z \in ZipInputs, l \in AmountInputs,
          v \in AmountInputs :
           last = [op |-> "record",
                   d |-> [state |-> st, zip_code |-> z, loan_amount |-> l,
                          estimated_value |-> v]]

Validate ==
    /\ last.op = "record"
    /\ last' = [op |-> "validate", d |-> last.d, msg |-> validate_inputs(last.d)]
    /\ UNCHANGED <<customers, sqlite_seq, locked, now, created>>

SpecValidate == InitValidate /\ [][Validate]_vars

\* the formats as the specification words them
TwoLetters(s) == Len(s) = 2 /\ \A i \in 1..2 : s[i] \in Letters

ZipShape(s) ==
    \/ Len(s) = 5 /\ \A i \in 1..5 : s[i] \in Digits
    \/ /\ Len(s) = 10
       /\ \A i \in (1..5) \cup (7..10) : s[i] \in Digits
       /\ s[6] = "-"

\* C5: validate_inputs returns the message of the first rule violated, in the
\* order state, zip_code, loan_amount, estimated_value, and None exactly when
\* state is 2 letters, zip_code is 5 digits or 5 digits, a hyphen and 4
\* digits, and both amounts are greater than 0.
C5_FirstViolatedRule ==
    last.op = "validate" =>
        last.msg = IF ~TwoLetters(last.d.state) THEN MsgState
                   ELSE IF ~ZipShape(last.d.zip_code) THEN MsgZip
                   ELSE IF last.d.loan_amount <= 0 THEN MsgLoan
                   ELSE IF last.d.estimated_value <= 0 THEN MsgValue
                   ELSE NoMsg

----------------------------------------------------------------------------
(* The top metrics *)

\* a ratio num/den kept exact; avg_ltv = None is the ratio 0/0
Ratio(num, den) == [num |-> num, den |-> den]
NoLtv == Ratio(0, 0)

RatioAdd(a, b) == Ratio(a.num * b.den + b.num * a.den, a.den * b.den)

ClipUpper == 5

\* faulty variant: the ratio is not clipped
LtvNoClipMut(r) == Ratio(r.loan_amount, r.estimated_value)

\* (loan_amount / estimated_value).clip(upper=5), for one row
Ltv(r) ==
    IF r.loan_amount > ClipUpper * r.estimated_value
    THEN Ratio(ClipUpper, 1)
    ELSE Ratio(r.loan_amount, r.estimated_value)

RECURSIVE SumLoans(_)
SumLoans(df) ==
    IF df = <<>> THEN 0 ELSE Head(df).loan_amount + SumLoans(Tail(df))

RECURSIVE SumLtv(_)
SumLtv(df) ==
    IF df = <<>> THEN Ratio(0, 1) ELSE RatioAdd(Ltv(Head(df)), SumLtv(Tail(df)))

\* total_customers, total_loan and avg_ltv as the script computes them
TopMetrics(df_all) ==
    LET total_customers == Len(df_all)
    IN  [count |-> total_customers,
         total_loan |-> IF total_customers # 0 THEN SumLoans(df_all) ELSE 0,
         avg_ltv |-> IF total_customers # 0
                     THEN LET s == SumLtv(df_all)
                          IN  Ratio(100 * s.num, s.den * total_customers)
                     ELSE NoLtv]

----------------------------------------------------------------------------
(* The script, one run per user interaction *)

MsgRequired == "Please complete all required fields marked with *."
MsgAdded == "Added"
MsgInsertFailed == "Failed to insert record"
MsgDeleted == "Deleted row"
MsgDeleteFailed == "Delete failed"
Quiet == ""

RequiredKeys == {"last_name", "first_name", "street", "city", "state", "zip_code"}

\* the record the submit handler builds from the form's widgets
FormRecord(form) ==
    [last_name |-> strip(form.last_name),
     first_name |-> strip(form.first_name),
     street |-> strip(form.street),
     city |-> strip(form.city),
     state |-> upper(strip(form.state)),
     zip_code |-> strip(form.zip_code),
     loan_amount |-> form.loan_amount,
     estimated_value |-> form.estimated_value,
     occupancy_type |-> form.occupancy_type]

\* the submit handler: [msg, db]
Submit(db, form, t) ==
    LET record == FormRecord(form)
    IN  IF \E k \in RequiredKeys : record[k] = <<>>
        THEN [msg |-> MsgRequired, db |-> db]
        ELSE LET msg == validate_inputs(record)
             IN  IF msg # NoMsg
                 THEN [msg |-> msg, db |-> db]
                 ELSE LET r == insert_customer(db, record, t)
                      IN  [msg |-> IF r.ok THEN MsgAdded ELSE MsgInsertFailed,
                           db |-> r.db]

\* the filters the script collects when Apply Filters is pressed
UiFilters(f) ==
    MkFilters(IF f.name # <<>> THEN strip(f.name) ELSE None,
              IF f.city # <<>> THEN strip(f.city) ELSE None,
              IF f.state # <<>> THEN strip(f.state) ELSE None)

\* the delete handler: delete_customer(int()), and int() is 0
DeletePressed(db) ==
    LET r == delete_customer(db, PyInt(0))
    IN  [msg |-> IF r.ok THEN MsgDeleted ELSE MsgDeleteFailed, db |-> r.db]

\* one run of the script from top to bottom.  pressed names the button that
\* caused the run ("none" for a plain rerun); did is the value of the row
\* selector.
Script(db, t, pressed, form, f, did) ==
    LET df_all == fetch_customers(db, NoFilters)
        metrics == TopMetrics(df_all)
        sub == IF pressed = "submit" THEN Submit(db, form, t)
               ELSE [msg |-> Quiet, db |-> db]
        filters == IF pressed = "apply" THEN UiFilters(f) ELSE NoFilters
        df == fetch_customers(sub.db, filters)
        del == IF pressed = "delete" /\ df # <<>> THEN DeletePressed(sub.db)
               ELSE [msg |-> Quiet, db |-> sub.db]
    IN  [db |-> del.db,
         out |-> [op |-> "run", pressed |-> pressed, df_all |-> df_all,
                  metrics |-> metrics,
                  msg |-> IF pressed = "delete" THEN del.msg ELSE sub.msg,
                  filters |-> filters, df |-> df, did |-> did]]

\* what the user may have typed when Add to Pipeline is pressed: two forms
\* that pass every check, and the first of them with one widget changed
JaneForm ==
    [last_name |-> <<" ","D","o","e"," ">>,
     first_name |-> <<"J","a","n","e">>,
     street |-> <<"1"," ","A">>,
     city |-> <<"M","e","s","a"," ">>,
     state |-> <<"a","z">>,
     zip_code |-> <<" ","8","5","2","1","2"," ">>,
     loan_amount |-> 1,
     estimated_value |-> 2,
     occupancy_type |-> <<"Primary Residence">>]

DanForm ==
    [JaneForm EXCEPT !.first_name = <<"D","a","n">>,
                     !.zip_code = <<"8","5","2","1","2","-","1","2","3","4">>,
                     !.loan_amount = 16,
                     !.occupancy_type = <<"Investment">>]

FormInputs ==
    {JaneForm, DanForm}
        \cup {[JaneForm EXCEPT ![k] = v] :
                  k \in {"last_name", "street", "city", "state", "zip_code"},
                  v \in {<<>>, <<" ">>}}
        \cup {[JaneForm EXCEPT !.state = v] :
                  v \in {<<"a">>, <<"a","1">>, <<" ","a">>, <<"a"," ">>}}
        \cup {[JaneForm EXCEPT !.zip_code = v] :
                  v \in {<<"8","5","2","1">>,
                         <<"8","5","2","1","2","1","2","3","4">>,
                         <<"8","5","2","1","2","-">>,
                         <<"8","5","2","1","2","-","1","2","3">>}}
        \cup {[DanForm EXCEPT !.loan_amount = 0],
              [DanForm EXCEPT !.estimated_value = 0],
              [DanForm EXCEPT !.state = <<>>, !.estimated_value = 0]}

NoForm == [k \in {} |-> <<>>]

UiFilterInputs ==
    [name : {<<>>, <<" ">>, <<"d","o","e">>},
     city : {<<>>, <<"y","u">>},
     state : {<<>>, <<"a","z">>, <<"a"," ">>}]

NoUiFilters == [name |-> <<>>, city |-> <<>>, state |-> <<>>]

Finish(r) ==
    /\ Install(r.db)
    /\ created' = IF r.db.sqlite_seq # sqlite_seq
                  THEN Append(created, r.db.sqlite_seq) ELSE created
    /\ last' = r.out
    /\ UNCHANGED now

\* did is recorded for the run in which the delete button is pressed, and
\* as 0 otherwise
RunPlain ==
    /\ Finish(Script(Db, now, "none", NoForm, NoUiFilters, 0))

RunSubmit(form) ==
    /\ Cardinality(customers) < MaxRows
    /\ Finish(Script(Db, now, "submit", form, NoUiFilters, 0))

RunApply(f) ==
    /\ Finish(Script(Db, now, "apply", NoForm, f, 0))

\* the row selector offers the ids of the rows listed
RunDelete(did) ==
    /\ did \in Ids(customers)
    /\ Finish(Script(Db, now, "delete", NoForm, NoUiFilters, did))

NextApp ==
    \/ Tick
    \/ RunPlain
    \/ \E form \in FormInputs : RunSubmit(form)
    \/ \E f \in UiFilterInputs : RunApply(f)
    \/ \E did \in 1..MaxRows : RunDelete(did)

SpecApp == Init /\ [][NextApp]_vars

----------------------------------------------------------------------------
(* Claims about the script *)

\* C2: when the delete button is pressed with row did selected and the run
\* reports the deletion, no record with id did is stored any more.
C2_SelectedRowDeleted ==
    (last.op = "run" /\ last.pressed = "delete" /\ last.msg = MsgDeleted) =>
        last.did \notin Ids(customers)

TwoUpperLetters(s) == Len(s) = 2 /\ \A i \in 1..2 : s[i] \in Uppercase

Trimmed(s) ==
    s # <<>> /\ s[1] \notin Whitespace /\ s[Len(s)] \notin Whitespace

WellFormed(r) ==
    /\ TwoUpperLetters(r.state)
    /\ ZipShape(r.zip_code)
    /\ r.loan_amount > 0
    /\ r.estimated_value > 0
    /\ \A k \in {"last_name", "first_name", "street", "city"} : Trimmed(r[k])

Refusals == {MsgRequired, MsgState, MsgZip, MsgLoan, MsgValue}

\* C6: whatever is submitted and deleted, every stored record has a state of
\* 2 uppercase letters, a zip_code of 5 digits or 5 digits, a hyphen and 4
\* digits, amounts greater than 0 and trimmed non-empty names, street and
\* city; and a submission the checks refuse stores nothing.
C6_StoredRecordsWellFormed ==
    /\ [](\A r \in customers : WellFormed(r))
    /\ [][(last'.op = "run" /\ last'.pressed = "submit"
               /\ last'.msg \in Refusals) =>
             /\ customers' = customers
             /\ sqlite_seq' = sqlite_seq]_vars

\* a submission was refused for its zip code while a record typed in lower
\* case and with blanks around it is stored
C6_Witness ==
    /\ last.op = "run"
    /\ last.pressed = "submit"
    /\ last.msg = MsgZip
    /\ \E r \in customers : r.state = <<"A","Z">> /\ Len(r.zip_code) = 10
    /\ \E r \in customers : r.last_name = <<"D","o","e">>

\* the product of the estimated values of the records of df
RECURSIVE ValueProduct(_)
ValueProduct(df) ==
    IF df = <<>> THEN 1 ELSE Head(df).estimated_value * ValueProduct(Tail(df))

Min(a, b) == IF a <= b THEN a ELSE b

\* the sum over df of min(loan_amount / estimated_value, 5), times d, where
\* every estimated value divides d
RECURSIVE ClippedSum(_, _)
ClippedSum(df, d) ==
    IF df = <<>> THEN 0
    ELSE Min(Head(df).loan_amount * (d \div Head(df).estimated_value), 5 * d)
             + ClippedSum(Tail(df), d)

RECURSIVE LoanSum(_)
LoanSum(rows) ==
    IF rows = {} THEN 0
    ELSE LET r == CHOOSE r \in rows : TRUE
         IN  r.loan_amount + LoanSum(rows \ {r})

\* C9: over the records the metrics are computed from, count is their number,
\* the total is the sum of loan_amount (0 for none), and the average loan to
\* value is 100 times the mean of min(loan_amount / estimated_value, 5),
\* absent for no records and never above 500.
C9_Metrics ==
    last.op = "run" =>
        LET m == last.metrics
            n == Len(last.df_all)
            d == ValueProduct(last.df_all)
        IN  /\ m.count = Cardinality(Range(last.df_all))
            /\ m.total_loan = LoanSum(Range(last.df_all))
            /\ n = 0 => m.avg_ltv = NoLtv
            /\ n > 0 =>
                   /\ m.avg_ltv.den > 0
                   /\ m.avg_ltv.num * n * d
                          = 100 * ClippedSum(last.df_all, d) * m.avg_ltv.den
                   /\ m.avg_ltv.num <= 500 * m.avg_ltv.den

\* two records with ratios 0.5 and 8.0 give 275.0
C9_Witness ==
    /\ last.op = "run"
    /\ last.metrics.count = 2
    /\ \E r \in Range(last.df_all) :
           2 * r.loan_amount = r.estimated_value
    /\ \E r \in Range(last.df_all) :
           r.loan_amount = 8 * r.estimated_value
    /\ last.metrics.avg_ltv.den > 0
    /\ last.metrics.avg_ltv.num = 275 * last.metrics.avg_ltv.den
    /\ last.metrics.total_loan = 17

\* C10: in a run whose submission inserts a record, the metrics shown are
\* those of the records the unfiltered list of the same run shows.
C10_MetricsOfCurrentRecords ==
    (last.op = "run" /\ last.pressed = "submit" /\ last.msg = MsgAdded) =>
        /\ last.metrics.count = Len(last.df)
        /\ last.metrics = TopMetrics(last.df)

====
